---- MODULE Spec2Model ----
(***************************************************************************)
(* Model of write_time_tags (src/src/main.rs:46-129): the writer that      *)
(* buffers event records into two column builders, writes each full buffer *)
(* as one RecordBatch (one row-group) into the open Parquet file and       *)
(* rotates to a new file when the chunk count exceeds the per-file limit.  *)
(*                                                                         *)
(* One action stands for one step of the function between two points where *)
(* it can return: the directory check, a file creation, the append of one  *)
(* record, a batch build, a batch write, a close.  Every fallible call     *)
(* (the `?` operator) has a failing branch that returns the error.         *)
(*                                                                         *)
(* A row-group is the RecordBatch handed to one ArrowWriter::write call.   *)
(* The input vector is consumed through its iterator: time_tags holds the  *)
(* records the loop has taken so far, and is the whole input once the loop *)
(* has ended.                                                              *)
(***************************************************************************)
EXTENDS Integers, Sequences, FiniteSets, TLC

\* ---------------------------------------------------------------- bounds
MaxRecords == 10
MaxChunkRows == 2
MaxFileRows == 4
MaxClock == 1
MaxForeignSeq == 2

\* ------------------------------------------------------------ data model
\* NormalizedTimeTag values the caller may pass.
Events ==
    { [channel_id |-> 0, time_tag_ps |-> 100],
      [channel_id |-> 1, time_tag_ps |-> 200] }

\* The label passed as `name`.
Label == "simulation-1"

\* The value of arrow_writer after close(self) has consumed it, or before it
\* is bound.
NoWriter == <<>>

VARIABLES
    pc,                     \* position in write_time_tags
    result,                 \* "none" while running, then "ok" or the error
    output_dir_is_dir,      \* output_dir.is_dir()
    max_chunk_rows,         \* let max_chunk_rows
    max_file_rows,          \* let max_file_rows
    max_chunk_count,        \* let max_chunk_count
    file_timestamp,         \* let file_timestamp
    total_files,            \* let mut total_files
    arrow_writer,           \* path of the file arrow_writer writes, or NoWriter
    channel_array_builder,  \* values appended since the last finish()
    time_tag_array_builder, \* values appended since the last finish()
    array_length,           \* let mut array_length
    chunk_count,            \* let mut chunk_count
    batch,                  \* the RecordBatch built for the pending write
    time_tags,              \* the records the for loop has taken so far
    dir,                    \* output_dir: path -> file
    open,                   \* paths that have a live file handle
    created,                \* files this invocation created, in creation order
    io_failed               \* a create, write or close has reported an error

vars ==
    << pc, result, output_dir_is_dir, max_chunk_rows, max_file_rows,
       max_chunk_count, file_timestamp, total_files, arrow_writer,
       channel_array_builder, time_tag_array_builder, array_length,
       chunk_count, batch, time_tags, dir, open, created, io_failed >>

\* ------------------------------------------------------- pure operations
RECURSIVE Digits(_)
\* Decimal digits of n, most significant first.
Digits(n) == IF n < 10 THEN <<n>> ELSE Append(Digits(n \div 10), n % 10)

\* `{total_files:0>4}`: left-padded with zeros to a width of at least 4.
Pad4(n) ==
    LET d == Digits(n)
        fill == IF Len(d) >= 4 THEN 0 ELSE 4 - Len(d)
    IN  [i \in 1..fill |-> 0] \o d

\* A plausible slip: the rotation takes a fresh timestamp.
FreshTimestamp(captured, clock) == clock

\* The timestamp a file name carries when the clock reads `clock`: the
\* file_timestamp captured at the start, in both format! calls.
NameTimestamp(captured, clock) == captured

\* format!("{file_timestamp}_{name}_{total_files:0>4}.parquet")
FileName(ts, n) == <<ts, Label, Pad4(n)>>

\* A plausible slip: `>` for `>=` in the flush threshold.
IsFullStrict(len, max) == len > max

\* array_length >= max_chunk_rows
IsFull(len, max) == len >= max

\* A plausible slip: `>=` for `>` in the rotation threshold.
ShouldRotateAtLimit(count, limit) == count >= limit

\* chunk_count > max_chunk_count
ShouldRotate(count, limit) == count > limit

\* A plausible slip: the quotient is rounded up.
MaxChunkCountRoundedUp(file_rows, chunk_rows) ==
    (file_rows + chunk_rows - 1) \div chunk_rows

\* max_file_rows / max_chunk_rows
MaxChunkCount(file_rows, chunk_rows) == file_rows \div chunk_rows

\* A file another program left in output_dir.
ForeignFile ==
    [ owner |-> "foreign",
      groups |-> << [channel |-> <<7>>, time_tag |-> <<700>>] >>,
      closes |-> 1 ]

\* What File::create_new leaves on disk before anything is written.
NewFile == [owner |-> "self", groups |-> <<>>, closes |-> 0]

\* output_dir with nothing in it.
EmptyDir == [p \in {} |-> ForeignFile]

\* output_dir with `file` stored at `path`.
WithFile(d, path, file) ==
    [p \in DOMAIN d \cup {path} |-> IF p = path THEN file ELSE d[p]]

\* A plausible slip: the two columns are handed over in the wrong order.
RecordBatchSwapped(channel, time_tag) ==
    [channel |-> time_tag, time_tag |-> channel]

\* RecordBatch::try_new(schema, [channel, time_tag]) of the finished builders.
RecordBatch(channel, time_tag) == [channel |-> channel, time_tag |-> time_tag]

\* The value of `batch` outside a flush.
NoBatch == RecordBatch(<<>>, <<>>)

\* A plausible slip: the writer of the first file is kept across rotations,
\* so every batch goes to the file created first.
WithRowGroupFirst(d, path, b) ==
    [d EXCEPT ![created[1].path].groups = Append(@, b)]

\* ArrowWriter::write(&batch): the batch becomes the file's next row-group.
WithRowGroup(d, path, b) ==
    [d EXCEPT ![path].groups = Append(@, b)]

\* ArrowWriter::close(): the footer is written, the file is finalized.
WithFooter(d, path) ==
    [d EXCEPT ![path].closes = @ + 1]

\* ---------------------------------------------------------------- Init
Init ==
    /\ pc = "start"
    /\ result = "none"
    /\ output_dir_is_dir \in BOOLEAN
    /\ max_chunk_rows \in 1..MaxChunkRows
    /\ max_file_rows \in 0..MaxFileRows
    /\ max_chunk_count = 0
    /\ file_timestamp = 0
    /\ total_files = 0
    /\ arrow_writer = NoWriter
    /\ channel_array_builder = <<>>
    /\ time_tag_array_builder = <<>>
    /\ array_length = 0
    /\ chunk_count = 0
    /\ batch = NoBatch
    /\ time_tags = <<>>
    /\ dir \in {EmptyDir} \cup
               { WithFile(EmptyDir, FileName(0, k), ForeignFile) : k \in 1..MaxForeignSeq }
    /\ (~output_dir_is_dir => dir = EmptyDir)
    /\ open = {}
    /\ created = <<>>
    /\ io_failed = FALSE

\* --------------------------------------------------------------- actions
\* `?` on an Err: the function returns it; its locals are dropped, which
\* releases the file handle without writing a footer.
ReturnErr(kind) ==
    /\ pc' = "returned"
    /\ result' = kind
    /\ io_failed' = TRUE
    /\ open' = {}
    /\ arrow_writer' = NoWriter

\* if !output_dir.is_dir() { bail!(...) }
BailNotDir ==
    /\ pc = "start"
    /\ ~output_dir_is_dir
    /\ pc' = "returned"
    /\ result' = "config_error"
    /\ UNCHANGED << output_dir_is_dir, max_chunk_rows, max_file_rows,
                    max_chunk_count, file_timestamp, total_files,
                    arrow_writer, channel_array_builder,
                    time_tag_array_builder, array_length, chunk_count, batch,
                    time_tags, dir, open, created, io_failed >>

\* A plausible slip: the directory check is missing.
SetupUnchecked ==
    /\ pc = "start"
    /\ pc' = "create_initial"
    /\ max_chunk_count' = MaxChunkCount(max_file_rows, max_chunk_rows)
    /\ file_timestamp' = 0
    /\ total_files' = 1
    /\ UNCHANGED << result, output_dir_is_dir, max_chunk_rows, max_file_rows,
                    arrow_writer, channel_array_builder,
                    time_tag_array_builder, array_length, chunk_count, batch,
                    time_tags, dir, open, created, io_failed >>

\* The directory check passed: schema, max_chunk_count, file_timestamp and
\* total_files are bound.  The clock reads 0 when file_timestamp is taken;
\* every later reading is 0 or more.
Setup ==
    /\ pc = "start"
    /\ output_dir_is_dir
    /\ pc' = "create_initial"
    /\ max_chunk_count' = MaxChunkCount(max_file_rows, max_chunk_rows)
    /\ file_timestamp' = 0
    /\ total_files' = 1
    /\ UNCHANGED << result, output_dir_is_dir, max_chunk_rows, max_file_rows,
                    arrow_writer, channel_array_builder,
                    time_tag_array_builder, array_length, chunk_count, batch,
                    time_tags, dir, open, created, io_failed >>

\* File::create_new(path)? then ArrowWriter::try_new(file, ..)?, both Ok:
\* the path did not exist, the file is created and arrow_writer owns it.
CreateOk(path) ==
    /\ path \notin DOMAIN dir
    /\ dir' = WithFile(dir, path, NewFile)
    /\ created' = Append(created, [seq |-> total_files, path |-> path])
    /\ open' = open \cup {path}
    /\ arrow_writer' = path
    /\ UNCHANGED << result, io_failed >>

\* File::create_new(path)? is an Err (AlreadyExists when the path exists, any
\* other I/O error otherwise) and output_dir is left as it was; or the file
\* was created and ArrowWriter::try_new(file, ..)? is an Err.
CreateErr(path) ==
    \/ /\ path \in DOMAIN dir
       /\ ReturnErr("already_exists")
       /\ UNCHANGED << dir, created >>
    \/ /\ path \notin DOMAIN dir
       /\ ReturnErr("io_error")
       /\ UNCHANGED << dir, created >>
    \/ /\ path \notin DOMAIN dir
       /\ ReturnErr("io_error")
       /\ dir' = WithFile(dir, path, NewFile)
       /\ created' = Append(created, [seq |-> total_files, path |-> path])

\* let initial_file = File::create_new(..)?; let mut arrow_writer = ..?;
\* and the builders and counters are bound.
InitialCreate ==
    /\ pc = "create_initial"
    /\ CreateOk(FileName(file_timestamp, total_files))
    /\ pc' = "loop"
    /\ channel_array_builder' = <<>>
    /\ time_tag_array_builder' = <<>>
    /\ array_length' = 0
    /\ chunk_count' = 0
    /\ UNCHANGED << output_dir_is_dir, max_chunk_rows, max_file_rows,
                    max_chunk_count, file_timestamp, total_files, batch,
                    time_tags >>

InitialCreateErr ==
    /\ pc = "create_initial"
    /\ CreateErr(FileName(file_timestamp, total_files))
    /\ UNCHANGED << output_dir_is_dir, max_chunk_rows, max_file_rows,
                    max_chunk_count, file_timestamp, total_files,
                    channel_array_builder, time_tag_array_builder,
                    array_length, chunk_count, batch, time_tags >>

\* for event in time_tags: the iterator yields the next record, which is
\* appended to both builders.
TakeEvent ==
    /\ pc = "loop"
    /\ Len(time_tags) < MaxRecords
    /\ \E event \in Events :
         /\ time_tags' = Append(time_tags, event)
         /\ array_length' = array_length + 1
         /\ channel_array_builder' =
                Append(channel_array_builder, event.channel_id)
         /\ time_tag_array_builder' =
                Append(time_tag_array_builder, event.time_tag_ps)
    /\ pc' = "chunk_check"
    /\ UNCHANGED << result, output_dir_is_dir, max_chunk_rows, max_file_rows,
                    max_chunk_count, file_timestamp, total_files,
                    arrow_writer, chunk_count, batch, dir, open, created,
                    io_failed >>

\* for event in time_tags: the iterator is exhausted.
EndOfInput ==
    /\ pc = "loop"
    /\ pc' = "final_check"
    /\ UNCHANGED << result, output_dir_is_dir, max_chunk_rows, max_file_rows,
                    max_chunk_count, file_timestamp, total_files,
                    arrow_writer, channel_array_builder,
                    time_tag_array_builder, array_length, chunk_count, batch,
                    time_tags, dir, open, created, io_failed >>

\* if array_length >= max_chunk_rows is false.
SkipFlush ==
    /\ pc = "chunk_check"
    /\ ~IsFull(array_length, max_chunk_rows)
    /\ pc' = "rotate_check"
    /\ UNCHANGED << result, output_dir_is_dir, max_chunk_rows, max_file_rows,
                    max_chunk_count, file_timestamp, total_files,
                    arrow_writer, channel_array_builder,
                    time_tag_array_builder, array_length, chunk_count, batch,
                    time_tags, dir, open, created, io_failed >>

\* if array_length >= max_chunk_rows: both builders are finished (which
\* empties them) into the batch.  RecordBatch::try_new rejects columns of
\* unequal length only, and the builders are always appended to together.
BuildChunk ==
    /\ pc = "chunk_check"
    /\ IsFull(array_length, max_chunk_rows)
    /\ Len(channel_array_builder) = Len(time_tag_array_builder)
    /\ batch' = RecordBatch(channel_array_builder, time_tag_array_builder)
    /\ channel_array_builder' = <<>>
    /\ time_tag_array_builder' = <<>>
    /\ pc' = "write_chunk"
    /\ UNCHANGED << result, output_dir_is_dir, max_chunk_rows, max_file_rows,
                    max_chunk_count, file_timestamp, total_files,
                    arrow_writer, array_length, chunk_count, time_tags, dir,
                    open, created, io_failed >>

\* A plausible slip: array_length is not reset after the write.
WriteChunkNoReset ==
    /\ pc = "write_chunk"
    /\ dir' = WithRowGroup(dir, arrow_writer, batch)
    /\ batch' = NoBatch
    /\ chunk_count' = chunk_count + 1
    /\ pc' = "rotate_check"
    /\ UNCHANGED << result, output_dir_is_dir, max_chunk_rows, max_file_rows,
                    max_chunk_count, file_timestamp, total_files,
                    arrow_writer, channel_array_builder,
                    time_tag_array_builder, array_length, time_tags, open,
                    created, io_failed >>

\* A plausible slip: chunk_count is incremented on every second write only.
WriteChunkMiscounted ==
    /\ pc = "write_chunk"
    /\ dir' = WithRowGroup(dir, arrow_writer, batch)
    /\ batch' = NoBatch
    /\ array_length' = 0
    /\ chunk_count' = chunk_count + (Len(dir[arrow_writer].groups) % 2)
    /\ pc' = "rotate_check"
    /\ UNCHANGED << result, output_dir_is_dir, max_chunk_rows, max_file_rows,
                    max_chunk_count, file_timestamp, total_files,
                    arrow_writer, channel_array_builder,
                    time_tag_array_builder, time_tags, open, created,
                    io_failed >>

\* arrow_writer.write(&batch)? is Ok; array_length = 0; chunk_count += 1.
WriteChunk ==
    /\ pc = "write_chunk"
    /\ dir' = WithRowGroup(dir, arrow_writer, batch)
    /\ batch' = NoBatch
    /\ array_length' = 0
    /\ chunk_count' = chunk_count + 1
    /\ pc' = "rotate_check"
    /\ UNCHANGED << result, output_dir_is_dir, max_chunk_rows, max_file_rows,
                    max_chunk_count, file_timestamp, total_files,
                    arrow_writer, channel_array_builder,
                    time_tag_array_builder, time_tags, open, created,
                    io_failed >>

\* A plausible slip: the Err of the write is discarded (`let _ = ..`) and the
\* loop goes on.
WriteChunkErrIgnored ==
    /\ pc = "write_chunk"
    /\ io_failed' = TRUE
    /\ batch' = NoBatch
    /\ array_length' = 0
    /\ chunk_count' = chunk_count + 1
    /\ pc' = "rotate_check"
    /\ UNCHANGED << result, output_dir_is_dir, max_chunk_rows, max_file_rows,
                    max_chunk_count, file_timestamp, total_files,
                    arrow_writer, channel_array_builder,
                    time_tag_array_builder, time_tags, dir, open, created >>

\* arrow_writer.write(&batch)? is an Err.
WriteChunkErr ==
    /\ pc = "write_chunk"
    /\ ReturnErr("io_error")
    /\ UNCHANGED << output_dir_is_dir, max_chunk_rows, max_file_rows,
                    max_chunk_count, file_timestamp, total_files,
                    channel_array_builder, time_tag_array_builder,
                    array_length, chunk_count, batch, time_tags, dir,
                    created >>

\* if chunk_count > max_chunk_count is false.
SkipRotate ==
    /\ pc = "rotate_check"
    /\ ~ShouldRotate(chunk_count, max_chunk_count)
    /\ pc' = "loop"
    /\ UNCHANGED << result, output_dir_is_dir, max_chunk_rows, max_file_rows,
                    max_chunk_count, file_timestamp, total_files,
                    arrow_writer, channel_array_builder,
                    time_tag_array_builder, array_length, chunk_count, batch,
                    time_tags, dir, open, created, io_failed >>

\* A plausible slip: the rotation skips a sequence number.
RotateCloseSkipping ==
    /\ pc = "rotate_check"
    /\ ShouldRotate(chunk_count, max_chunk_count)
    /\ dir' = WithFooter(dir, arrow_writer)
    /\ open' = open \ {arrow_writer}
    /\ arrow_writer' = NoWriter
    /\ chunk_count' = 0
    /\ total_files' = total_files + 2
    /\ pc' = "rotate_create"
    /\ UNCHANGED << result, output_dir_is_dir, max_chunk_rows, max_file_rows,
                    max_chunk_count, file_timestamp,
                    channel_array_builder, time_tag_array_builder,
                    array_length, batch, time_tags, created, io_failed >>

\* A plausible slip: the old writer is not closed before the next file is
\* created; it is finalized only when arrow_writer is reassigned.
RotateCloseDeferred ==
    /\ pc = "rotate_check"
    /\ ShouldRotate(chunk_count, max_chunk_count)
    /\ chunk_count' = 0
    /\ total_files' = total_files + 1
    /\ pc' = "rotate_create"
    /\ UNCHANGED << result, output_dir_is_dir, max_chunk_rows, max_file_rows,
                    max_chunk_count, file_timestamp, arrow_writer,
                    channel_array_builder, time_tag_array_builder,
                    array_length, batch, time_tags, dir, open, created,
                    io_failed >>

\* if chunk_count > max_chunk_count: arrow_writer.close()? is Ok, which
\* consumes the writer; chunk_count = 0; total_files += 1.
RotateClose ==
    /\ pc = "rotate_check"
    /\ ShouldRotate(chunk_count, max_chunk_count)
    /\ dir' = WithFooter(dir, arrow_writer)
    /\ open' = open \ {arrow_writer}
    /\ arrow_writer' = NoWriter
    /\ chunk_count' = 0
    /\ total_files' = total_files + 1
    /\ pc' = "rotate_create"
    /\ UNCHANGED << result, output_dir_is_dir, max_chunk_rows, max_file_rows,
                    max_chunk_count, file_timestamp,
                    channel_array_builder, time_tag_array_builder,
                    array_length, batch, time_tags, created, io_failed >>

\* if chunk_count > max_chunk_count: arrow_writer.close()? is an Err.
RotateCloseErr ==
    /\ pc = "rotate_check"
    /\ ShouldRotate(chunk_count, max_chunk_count)
    /\ ReturnErr("io_error")
    /\ UNCHANGED << output_dir_is_dir, max_chunk_rows, max_file_rows,
                    max_chunk_count, file_timestamp, total_files,
                    channel_array_builder, time_tag_array_builder,
                    array_length, chunk_count, batch, time_tags, dir,
                    created >>

\* let new_file = File::create_new(..)?; arrow_writer = ..?; some time after
\* the start.
RotateCreate ==
    /\ pc = "rotate_create"
    /\ \E clock \in 0..MaxClock :
         CreateOk(FileName(NameTimestamp(file_timestamp, clock), total_files))
    /\ pc' = "loop"
    /\ UNCHANGED << output_dir_is_dir, max_chunk_rows, max_file_rows,
                    max_chunk_count, file_timestamp, total_files,
                    channel_array_builder, time_tag_array_builder,
                    array_length, chunk_count, batch, time_tags >>

RotateCreateErr ==
    /\ pc = "rotate_create"
    /\ \E clock \in 0..MaxClock :
         CreateErr(FileName(NameTimestamp(file_timestamp, clock), total_files))
    /\ UNCHANGED << output_dir_is_dir, max_chunk_rows, max_file_rows,
                    max_chunk_count, file_timestamp, total_files,
                    channel_array_builder, time_tag_array_builder,
                    array_length, chunk_count, batch, time_tags >>

\* A plausible slip: the final flush is not guarded, so an empty buffer is
\* written as an empty row-group.
FinalFlushUnguarded ==
    /\ pc = "final_check"
    /\ ~(array_length > 0)
    /\ batch' = RecordBatch(channel_array_builder, time_tag_array_builder)
    /\ channel_array_builder' = <<>>
    /\ time_tag_array_builder' = <<>>
    /\ pc' = "write_final"
    /\ UNCHANGED << result, output_dir_is_dir, max_chunk_rows, max_file_rows,
                    max_chunk_count, file_timestamp, total_files,
                    arrow_writer, array_length, chunk_count, time_tags, dir,
                    open, created, io_failed >>

\* if array_length > 0 is false.
SkipFinalFlush ==
    /\ pc = "final_check"
    /\ ~(array_length > 0)
    /\ pc' = "final_close"
    /\ UNCHANGED << result, output_dir_is_dir, max_chunk_rows, max_file_rows,
                    max_chunk_count, file_timestamp, total_files,
                    arrow_writer, channel_array_builder,
                    time_tag_array_builder, array_length, chunk_count, batch,
                    time_tags, dir, open, created, io_failed >>

\* if array_length > 0: the builders are finished into the last batch.
BuildFinal ==
    /\ pc = "final_check"
    /\ array_length > 0
    /\ Len(channel_array_builder) = Len(time_tag_array_builder)
    /\ batch' = RecordBatch(channel_array_builder, time_tag_array_builder)
    /\ channel_array_builder' = <<>>
    /\ time_tag_array_builder' = <<>>
    /\ pc' = "write_final"
    /\ UNCHANGED << result, output_dir_is_dir, max_chunk_rows, max_file_rows,
                    max_chunk_count, file_timestamp, total_files,
                    arrow_writer, array_length, chunk_count, time_tags, dir,
                    open, created, io_failed >>

\* A plausible slip: the remaining rows are never written.
WriteFinalDropped ==
    /\ pc = "write_final"
    /\ batch' = NoBatch
    /\ pc' = "final_close"
    /\ UNCHANGED << result, output_dir_is_dir, max_chunk_rows, max_file_rows,
                    max_chunk_count, file_timestamp, total_files,
                    arrow_writer, channel_array_builder,
                    time_tag_array_builder, array_length, chunk_count,
                    time_tags, dir, open, created, io_failed >>

\* arrow_writer.write(&batch)? of the remaining rows is Ok.  Neither
\* array_length nor chunk_count is touched here.
WriteFinal ==
    /\ pc = "write_final"
    /\ dir' = WithRowGroup(dir, arrow_writer, batch)
    /\ batch' = NoBatch
    /\ pc' = "final_close"
    /\ UNCHANGED << result, output_dir_is_dir, max_chunk_rows, max_file_rows,
                    max_chunk_count, file_timestamp, total_files,
                    arrow_writer, channel_array_builder,
                    time_tag_array_builder, array_length, chunk_count,
                    time_tags, open, created, io_failed >>

\* arrow_writer.write(&batch)? of the remaining rows is an Err.
WriteFinalErr ==
    /\ pc = "write_final"
    /\ ReturnErr("io_error")
    /\ UNCHANGED << output_dir_is_dir, max_chunk_rows, max_file_rows,
                    max_chunk_count, file_timestamp, total_files,
                    channel_array_builder, time_tag_array_builder,
                    array_length, chunk_count, batch, time_tags, dir,
                    created >>

\* A plausible slip: the function returns Ok(()) without closing the writer,
\* so the last file gets no footer.
FinalCloseMissing ==
    /\ pc = "final_close"
    /\ open' = {}
    /\ arrow_writer' = NoWriter
    /\ result' = "ok"
    /\ pc' = "returned"
    /\ UNCHANGED << output_dir_is_dir, max_chunk_rows, max_file_rows,
                    max_chunk_count, file_timestamp, total_files,
                    channel_array_builder, time_tag_array_builder,
                    array_length, chunk_count, batch, time_tags, dir,
                    created, io_failed >>

\* arrow_writer.close()? is Ok; Ok(())
FinalClose ==
    /\ pc = "final_close"
    /\ dir' = WithFooter(dir, arrow_writer)
    /\ open' = open \ {arrow_writer}
    /\ arrow_writer' = NoWriter
    /\ result' = "ok"
    /\ pc' = "returned"
    /\ UNCHANGED << output_dir_is_dir, max_chunk_rows, max_file_rows,
                    max_chunk_count, file_timestamp, total_files,
                    channel_array_builder, time_tag_array_builder,
                    array_length, chunk_count, batch, time_tags, created,
                    io_failed >>

\* arrow_writer.close()? is an Err.
FinalCloseErr ==
    /\ pc = "final_close"
    /\ ReturnErr("io_error")
    /\ UNCHANGED << output_dir_is_dir, max_chunk_rows, max_file_rows,
                    max_chunk_count, file_timestamp, total_files,
                    channel_array_builder, time_tag_array_builder,
                    array_length, chunk_count, batch, time_tags, dir,
                    created >>

Next ==
    \/ BailNotDir
    \/ Setup
    \/ InitialCreate
    \/ InitialCreateErr
    \/ TakeEvent
    \/ EndOfInput
    \/ SkipFlush
    \/ BuildChunk
    \/ WriteChunk
    \/ WriteChunkErr
    \/ SkipRotate
    \/ RotateClose
    \/ RotateCloseErr
    \/ RotateCreate
    \/ RotateCreateErr
    \/ SkipFinalFlush
    \/ BuildFinal
    \/ WriteFinal
    \/ WriteFinalErr
    \/ FinalClose
    \/ FinalCloseErr

Spec == Init /\ [][Next]_vars

\* The scheduler runs the function to its return: no step waits forever.
FairSpec == Spec /\ WF_vars(Next)

\* ------------------------------------------------------ derived notions
RECURSIVE RowCount(_)
\* Number of rows in a sequence of row-groups.
RowCount(groups) ==
    IF groups = <<>> THEN 0
    ELSE Len(Head(groups).channel) + RowCount(Tail(groups))

\* The records a row-group holds, position by position.
RowsOf(g) ==
    [i \in 1..Len(g.channel) |->
        [channel_id |-> g.channel[i], time_tag_ps |-> g.time_tag[i]]]

RECURSIVE RowsOfGroups(_)
RowsOfGroups(groups) ==
    IF groups = <<>> THEN <<>>
    ELSE RowsOf(Head(groups)) \o RowsOfGroups(Tail(groups))

\* The rows of the created file whose sequence number is n, if there is one.
RowsOfSeq(n) ==
    IF \E i \in 1..Len(created) : created[i].seq = n
    THEN LET i == CHOOSE j \in 1..Len(created) : created[j].seq = n
         IN  RowsOfGroups(dir[created[i].path].groups)
    ELSE <<>>

RECURSIVE RowsUpToSeq(_)
\* All rows written, files taken in increasing sequence number.
RowsUpToSeq(n) ==
    IF n = 0 THEN <<>> ELSE RowsUpToSeq(n - 1) \o RowsOfSeq(n)

RECURSIVE TotalRows(_)
\* Number of rows in the first k created files.
TotalRows(k) ==
    IF k = 0 THEN 0
    ELSE TotalRows(k - 1) + RowCount(dir[created[k].path].groups)

\* Sizes of the row-groups of the i-th created file.
GroupSizes(i) ==
    LET groups == dir[created[i].path].groups
    IN  [j \in 1..Len(groups) |-> Len(groups[j].channel)]

ReturnedOk == pc = "returned" /\ result = "ok"

ErrorKinds == {"already_exists", "io_error"}

\* -------------------------------------------------------------- claims
\* C1: when write_time_tags returns Ok, the row counts of all row-groups of
\* all files it created add up to the number of input records.
C1_RowConservation ==
    ReturnedOk => TotalRows(Len(created)) = Len(time_tags)

\* A successful run over several files that ends with a partial chunk.
C1_Witness ==
    /\ ReturnedOk
    /\ Len(created) >= 2
    /\ Len(time_tags) >= 5
    /\ array_length > 0

\* C2: in every row-group written the two columns have the same length, and
\* when the function returns Ok the rows of all row-groups, in write order
\* with files in increasing sequence number, are the input records in input
\* order.
C2_OrderAndAlignment ==
    /\ \A i \in 1..Len(created) :
         \A j \in 1..Len(dir[created[i].path].groups) :
            LET g == dir[created[i].path].groups[j]
            IN  Len(g.channel) = Len(g.time_tag)
    /\ ReturnedOk => RowsUpToSeq(total_files) = time_tags

\* A successful run of two different records over several files.
C2_Witness ==
    /\ ReturnedOk
    /\ Len(created) >= 2
    /\ Len(time_tags) >= 5
    /\ \E i, j \in 1..Len(time_tags) : time_tags[i] # time_tags[j]

\* C3: the row counter and both column builders never hold more than
\* max_chunk_rows rows.
C3_BufferBound ==
    /\ array_length <= max_chunk_rows
    /\ Len(channel_array_builder) <= max_chunk_rows
    /\ Len(time_tag_array_builder) <= max_chunk_rows

\* The buffer is full, right after an append, later in the input.
C3_Witness ==
    /\ pc = "chunk_check"
    /\ max_chunk_rows = 2
    /\ array_length = max_chunk_rows
    /\ Len(channel_array_builder) = max_chunk_rows
    /\ Len(time_tags) > 4

EmptyInputOutcome ==
    /\ result = "ok"
    /\ Len(created) = 1
    /\ created[1].seq = 1
    /\ created[1].path = <<file_timestamp, Label, <<0, 0, 0, 1>>>>
    /\ dir[created[1].path].groups = <<>>
    /\ dir[created[1].path].closes = 1
    /\ open = {}

\* C5 as stated: with no record and an existing directory the function
\* returns Ok having created exactly one file, numbered 0001, with no
\* row-group, closed once.
C5_EmptyInputAlways ==
    ( /\ pc = "returned"
      /\ output_dir_is_dir
      /\ time_tags = <<>> )
    => EmptyInputOutcome

\* C5 as amended: with no record, an existing directory and no failing
\* create or close (in particular no file of that name already there), the
\* function returns Ok having created exactly one file, numbered 0001, with
\* no row-group, closed once.
C5_EmptyInput ==
    ( /\ pc = "returned"
      /\ output_dir_is_dir
      /\ ~io_failed
      /\ time_tags = <<>> )
    => EmptyInputOutcome

\* An empty input written successfully.
C5_Witness ==
    /\ ReturnedOk
    /\ time_tags = <<>>
    /\ Len(created) = 1

\* C6: the files created carry the sequence numbers 1, 2, .., k in creation
\* order and no two of them have the same name.
C6_NamingUniqueness ==
    /\ \A i \in 1..Len(created) :
         /\ created[i].seq = i
         /\ created[i].path = FileName(file_timestamp, i)
    /\ \A i, j \in 1..Len(created) :
         i # j => created[i].path # created[j].path
    /\ Len(created) <= total_files

\* Two rotations have happened.
C6_Witness ==
    /\ Len(created) >= 3
    /\ pc = "loop"

\* C7: when output_dir is not a directory the function returns the
\* configuration error and nothing else happens: no file is created, no
\* record is taken, nothing is buffered or written.
C7_DirectoryPrecondition ==
    ~output_dir_is_dir =>
       /\ pc \in {"start", "returned"}
       /\ pc = "returned" => result = "config_error"
       /\ dir = EmptyDir
       /\ created = <<>>
       /\ open = {}
       /\ arrow_writer = NoWriter
       /\ time_tags = <<>>
       /\ array_length = 0
       /\ channel_array_builder = <<>>
       /\ time_tag_array_builder = <<>>
       /\ ~io_failed

\* The function has returned the configuration error.
C7_Witness ==
    /\ ~output_dir_is_dir
    /\ pc = "returned"
    /\ result = "config_error"

\* C8 as stated: from the creation of the first file until the function
\* returns, exactly one file is open in every state.
C8_ExactlyOneOpen ==
    pc \notin {"start", "create_initial", "returned"} =>
        Cardinality(open) = 1

\* C8 as amended: at most one file is open in every state; exactly one,
\* the one arrow_writer owns, while records are buffered and flushed; and
\* none between the close and the create of a rotation.
C8_AtMostOneOpen ==
    /\ Cardinality(open) <= 1
    /\ pc \in { "loop", "chunk_check", "write_chunk", "rotate_check",
                "final_check", "write_final", "final_close" }
         => open = {arrow_writer} /\ arrow_writer # NoWriter
    /\ pc = "rotate_create" => open = {}

\* The writer is back in the loop after a rotation, on its second file.
C8_Witness ==
    /\ pc = "loop"
    /\ Len(created) = 2
    /\ open = {created[2].path}
    /\ dir[created[1].path].closes = 1

\* C9: the step on which a create, write or close first fails returns an
\* error; a create whose target exists fails so and leaves output_dir as it
\* was; after a failure nothing more is appended, written, created or
\* closed, and the result is never Ok.
C9_FatalErrors ==
    [][ /\ (~io_failed /\ io_failed') =>
              /\ pc' = "returned"
              /\ result' \in ErrorKinds
              /\ time_tags' = time_tags
              /\ \A p \in DOMAIN dir : dir'[p] = dir[p]
        /\ ( /\ pc \in {"create_initial", "rotate_create"}
             /\ pc' # pc
             /\ FileName(file_timestamp, total_files) \in DOMAIN dir )
           => /\ pc' = "returned"
              /\ result' = "already_exists"
              /\ dir' = dir
              /\ created' = created
        /\ io_failed =>
              /\ result' # "ok"
              /\ UNCHANGED << dir, created, time_tags, open,
                              channel_array_builder,
                              time_tag_array_builder >>
      ]_vars

\* A rotation has hit a file name that was already there.
C9_Witness ==
    /\ io_failed
    /\ result = "already_exists"
    /\ Len(created) >= 1
    /\ \E p \in DOMAIN dir : dir[p] = ForeignFile

\* C10: the function returns; and when it returns without any create, write
\* or close having failed, it returns Ok with every file it created closed
\* exactly once and none left open.
C10_NormalCompletion ==
    /\ <>(pc = "returned")
    /\ []( ( /\ pc = "returned"
             /\ output_dir_is_dir
             /\ ~io_failed )
           => /\ result = "ok"
              /\ open = {}
              /\ Len(created) = total_files
              /\ \A i \in 1..Len(created) :
                    dir[created[i].path].closes = 1 )

\* A successful run that rotated at least once.
C10_Witness ==
    /\ ReturnedOk
    /\ Len(created) >= 2
    /\ \A i \in 1..Len(created) : dir[created[i].path].closes = 1

\* C11: a file that has been closed is never changed again: no step adds a
\* row-group to it, opens it or closes it once more; and every step that
\* adds a row-group adds it to the one open file, which arrow_writer owns,
\* which is not closed and which carries the highest sequence number.
C11_ClosedFilesImmutable ==
    [][ /\ \A p \in DOMAIN dir :
             dir[p].closes >= 1 =>
                /\ p \in DOMAIN dir'
                /\ dir'[p] = dir[p]
                /\ p \notin open'
        /\ \A p \in DOMAIN dir :
             (p \in DOMAIN dir' /\ dir'[p].groups # dir[p].groups) =>
                /\ open = {p}
                /\ arrow_writer = p
                /\ dir[p].closes = 0
                /\ created[Len(created)].path = p
                /\ \A i \in 1..Len(created) :
                      created[i].seq <= created[Len(created)].seq
      ]_vars

\* The first file is closed and row-groups have since gone to the second.
C11_Witness ==
    /\ Len(created) >= 2
    /\ dir[created[1].path].closes = 1
    /\ Len(dir[created[2].path].groups) >= 2
    /\ pc = "loop"

\* C12: every file name of the invocation carries the timestamp captured at
\* the start, whatever the clock reads when a rotation creates its file, so
\* two names differ in the sequence number only.
C12_OneTimestamp ==
    /\ \A i \in 1..Len(created) :
         /\ created[i].path[1] = file_timestamp
         /\ created[i].path[2] = Label
    /\ \A i, j \in 1..Len(created) :
         /\ created[i].path[1] = created[j].path[1]
         /\ created[i].path[2] = created[j].path[2]
         /\ (created[i].path[3] = created[j].path[3]) <=> (i = j)

\* Two rotations have created their files; each was created for every
\* reading of the clock, the later ones included.
C12_Witness ==
    /\ Len(created) >= 3
    /\ created[3].path[1] = created[1].path[1]
    /\ created[3].path # created[1].path

\* A step of the rotation branch: the close of the current file is
\* attempted.
RotationStep == pc = "rotate_check" /\ pc' \in {"rotate_create", "returned"}

\* At the rotation check, a flush has just completed: the builders were
\* finished in this iteration and the batch was written.
FlushJustCompleted ==
    /\ pc = "rotate_check"
    /\ channel_array_builder = <<>>
    /\ time_tag_array_builder = <<>>

BetweenOperations ==
    pc \in {"loop", "chunk_check", "rotate_check", "rotate_create",
            "final_check"}

\* The final step of the function is due: the final flush, if there was
\* one, has completed.
AfterFinalFlush == pc = "final_close"

\* C14 as stated: between operations both builders hold array_length
\* values, and when a flush has completed, the final one included, the
\* counter is zero and both builders are empty.
C14_BufferMatchesCounter ==
    /\ (BetweenOperations \/ AfterFinalFlush) =>
          /\ Len(channel_array_builder) = Len(time_tag_array_builder)
          /\ Len(channel_array_builder) = array_length
    /\ (FlushJustCompleted \/ AfterFinalFlush) =>
          /\ array_length = 0
          /\ channel_array_builder = <<>>
          /\ time_tag_array_builder = <<>>

\* C14 as amended: the builders always have the same length; up to the end
\* of input that length is array_length between operations, and after a
\* threshold flush the counter is zero and both builders are empty; after
\* the final partial flush both builders are empty while array_length keeps
\* the number of rows just flushed, between 1 and max_chunk_rows - 1.
C14_BufferMatchesCounterInLoop ==
    /\ Len(channel_array_builder) = Len(time_tag_array_builder)
    /\ BetweenOperations => Len(channel_array_builder) = array_length
    /\ FlushJustCompleted => array_length = 0
    /\ AfterFinalFlush =>
          /\ channel_array_builder = <<>>
          /\ time_tag_array_builder = <<>>
          /\ array_length >= 0
          /\ array_length < max_chunk_rows
          /\ array_length > 0 =>
                LET groups == dir[arrow_writer].groups
                IN  /\ groups # <<>>
                    /\ Len(groups[Len(groups)].channel) = array_length

\* The final flush has written a partial chunk after earlier full ones.
C14_Witness ==
    /\ AfterFinalFlush
    /\ array_length > 0
    /\ channel_array_builder = <<>>
    /\ Len(dir[arrow_writer].groups) >= 2

\* C15 as stated: in every state the chunk counter is the number of
\* row-groups written into the open file since it was opened, the final
\* partial flush counted.
C15_ChunkCountIsGroups ==
    arrow_writer # NoWriter =>
        chunk_count = Len(dir[arrow_writer].groups)

\* C15 as amended: every flush inside the record loop increments the chunk
\* counter, so that up to the final flush it is the number of row-groups
\* written into the open file; the final partial flush writes one more
\* row-group and leaves the counter as it was.
C15_ChunkCountInLoop ==
    arrow_writer # NoWriter =>
        IF AfterFinalFlush /\ array_length > 0
        THEN chunk_count + 1 = Len(dir[arrow_writer].groups)
        ELSE chunk_count = Len(dir[arrow_writer].groups)

\* The final flush has added a row-group the counter does not count.
C15_Witness ==
    /\ AfterFinalFlush
    /\ array_length > 0
    /\ chunk_count >= 1
    /\ Len(dir[arrow_writer].groups) = chunk_count + 1

RECURSIVE GroupSizesUpTo(_)
\* Sizes of all row-groups written, in the order of the files created.
GroupSizesUpTo(k) ==
    IF k = 0 THEN <<>> ELSE GroupSizesUpTo(k - 1) \o GroupSizes(k)

\* C16: a batch written inside the loop has exactly max_chunk_rows rows;
\* the final batch is built from a non-empty buffer only and has between 1
\* and max_chunk_rows - 1 rows; so every row-group on disk has
\* max_chunk_rows rows, except that the last one of the last file may be
\* the shorter final one, and none is empty; 5 records with
\* max_chunk_rows = 2 give row-groups of 2, 2 and 1 rows.
C16_RowGroupSizes ==
    /\ pc = "write_chunk" => Len(batch.channel) = max_chunk_rows
    /\ pc = "write_final" =>
          /\ Len(batch.channel) >= 1
          /\ Len(batch.channel) <= max_chunk_rows - 1
          /\ Len(batch.channel) = array_length
    /\ \A i \in 1..Len(created) :
         \A j \in 1..Len(GroupSizes(i)) :
            /\ GroupSizes(i)[j] >= 1
            /\ GroupSizes(i)[j] <= max_chunk_rows
            /\ GroupSizes(i)[j] < max_chunk_rows =>
                  /\ i = Len(created)
                  /\ j = Len(GroupSizes(i))
                  /\ pc \in {"final_close", "returned"}
    /\ (ReturnedOk /\ max_chunk_rows = 2 /\ Len(time_tags) = 5) =>
          GroupSizesUpTo(Len(created)) = <<2, 2, 1>>

\* The run of the example: 5 records in chunks of 2, in a single file.
C16_Witness ==
    /\ ReturnedOk
    /\ max_chunk_rows = 2
    /\ Len(time_tags) = 5
    /\ Len(created) = 1
    /\ GroupSizes(1) = <<2, 2, 1>>

\* max_chunks_per_file as the configuration defines it.
ChunksPerFile == max_file_rows \div max_chunk_rows

\* Rows that make a file rotate: (m + 1) * c.
RowsPerRotation == (ChunksPerFile + 1) * max_chunk_rows

====
